---- MODULE Spec2Model ----
(***************************************************************************)
(* PikaHelper data_processor: DOCXExtractor (extract_docx.py).             *)
(* The model follows one call of chunk_text_with_metadata over a loaded    *)
(* document: URL extraction over the joined text, the paragraph loop of    *)
(* the segmenter, and the chunk records it appends.                        *)
(* Text is a sequence of one-character strings.                            *)
(***************************************************************************)
EXTENDS Integers, Sequences, FiniteSets, TLC

\* ------------------------------------------------------------------ bounds
\* Largest number of paragraphs of a document.
MaxParas == 3

\* Largest number of pieces of a text given to extract_urls or categorize_url.
MaxPieces == 3

\* ------------------------------------------------------- text primitives
NL == "\n"

\* Characters str.strip() removes (those the documents here contain).
Whitespace == {" ", NL, "\t"}

Max(a, b) == IF a >= b THEN a ELSE b

\* The largest element of a set of naturals, 0 for the empty set.
Max0(S) == IF S = {} THEN 0 ELSE CHOOSE x \in S : \A y \in S : y <= x

Min(a, b) == IF a <= b THEN a ELSE b

\* Python slice s[a:b] with 0-based, already clamped 0 <= a, b <= len(s).
Slice(s, a, b) == IF b <= a THEN << >> ELSE SubSeq(s, a + 1, b)

\* Number of leading characters of s that belong to cs.
RECURSIVE LeadCount(_, _)
LeadCount(s, cs) ==
    IF s = << >> \/ Head(s) \notin cs THEN 0 ELSE 1 + LeadCount(Tail(s), cs)

\* Number of trailing characters of s that belong to cs.
RECURSIVE TrailCount(_, _)
TrailCount(s, cs) ==
    IF s = << >> \/ s[Len(s)] \notin cs THEN 0
    ELSE 1 + TrailCount(SubSeq(s, 1, Len(s) - 1), cs)

\* str.rstrip(chars)
RStrip(s, cs) == SubSeq(s, 1, Len(s) - TrailCount(s, cs))

\* str.strip(): leading and trailing whitespace removed.
Strip(s) ==
    LET r == RStrip(s, Whitespace)
    IN  SubSeq(r, LeadCount(r, Whitespace) + 1, Len(r))

\* sub occurs in s at 1-based index i.
OccursAt(s, sub, i) ==
    /\ i >= 1
    /\ i + Len(sub) - 1 <= Len(s)
    /\ SubSeq(s, i, i + Len(sub) - 1) = sub

\* Python `sub in s`.
Contains(s, sub) == \E i \in 1..(Len(s) + 1) : OccursAt(s, sub, i)

\* "\n".join(parts)
RECURSIVE JoinNL(_)
JoinNL(parts) ==
    IF parts = << >> THEN << >>
    ELSE IF Len(parts) = 1 THEN parts[1]
    ELSE parts[1] \o <<NL>> \o JoinNL(Tail(parts))

\* The pieces of a sequence of texts, one after the other.
RECURSIVE ConcatPieces(_)
ConcatPieces(ss) == IF ss = << >> THEN << >> ELSE Head(ss) \o ConcatPieces(Tail(ss))

\* ------------------------------------------------------------ extract_urls
\* Characters the first character class of url_pattern excludes (the grave
\* accent, which the pattern also excludes, is not a character of these texts).
UrlExcluded == Whitespace \cup {"<", ">", "\"", "{", "}", "|", "\\", "^", "[", "]"}

\* Characters the last character class excludes besides; also rstrip's argument.
TrailingPunct == {".", ",", ";", ":", "!", "?", ")"}

\* Width of the context taken on each side of a match.
ContextWidth == 50

SchemeHttp  == <<"h", "t", "t", "p", ":", "/", "/">>

SchemeHttps == <<"h", "t", "t", "p", "s", ":", "/", "/">>

\* Length of the scheme ("https?://") matched at 1-based index i, 0 when none.
SchemeLenAt(text, i) ==
    IF OccursAt(text, SchemeHttps, i) THEN Len(SchemeHttps)
    ELSE IF OccursAt(text, SchemeHttp, i) THEN Len(SchemeHttp)
    ELSE 0

\* Last index of the maximal run of non-excluded characters starting at j
\* (j - 1 when text[j] is excluded or past the end).
RECURSIVE RunEnd(_, _)
RunEnd(text, j) ==
    IF j > Len(text) \/ text[j] \in UrlExcluded THEN j - 1 ELSE RunEnd(text, j + 1)

\* 1-based index of the last character of the regex match starting at i, 0 when
\* the pattern does not match there: the scheme, one or more non-excluded
\* characters (greedy, backtracking), then one character that is neither
\* excluded nor trailing punctuation.
MatchEndAt(text, i) ==
    LET n  == SchemeLenAt(text, i)
        j0 == i + n
        e  == RunEnd(text, j0)
        ks == {k \in (j0 + 1)..e : text[k] \notin TrailingPunct}
    IN  IF n = 0 \/ ks = {} THEN 0
        ELSE CHOOSE k \in ks : \A k2 \in ks : k2 <= k

\* str.lower(), on the capitals these texts contain.
Lower(c) ==
    CASE c = "Y" -> "y"
      [] c = "D" -> "d"
      [] c = "P" -> "p"
      [] OTHER   -> c

LowerText(s) == [k \in 1..Len(s) |-> Lower(s[k])]

KwYoutube  == <<"y","o","u","t","u","b","e",".","c","o","m">>

KwYoutuBe  == <<"y","o","u","t","u",".","b","e">>

KwDownload == <<"d","o","w","n","l","o","a","d">>

KwDrive    == <<"d","r","i","v","e",".","g","o","o","g","l","e">>

KwDropbox  == <<"d","r","o","p","b","o","x">>

KwDiscord  == <<"d","i","s","c","o","r","d">>

KwForum    == <<"f","o","r","u","m">>

KwReddit   == <<"r","e","d","d","i","t">>

KwPokemmo  == <<"p","o","k","e","m","m","o",".","c","o","m">>

\* The product's own domain is tested first.
categorize_url_official_first(url) ==
    LET u == LowerText(url)
    IN  IF Contains(u, KwPokemmo) THEN "official"
        ELSE IF Contains(u, KwYoutube) \/ Contains(u, KwYoutuBe) THEN "video"
        ELSE IF Contains(u, KwDownload) \/ Contains(u, KwDrive) \/ Contains(u, KwDropbox)
            THEN "download"
        ELSE IF Contains(u, KwDiscord) \/ Contains(u, KwForum) \/ Contains(u, KwReddit)
            THEN "community"
        ELSE "external"

\* categorize_url: the first matching rule wins.
categorize_url(url) ==
    LET u == LowerText(url)
    IN  IF Contains(u, KwYoutube) \/ Contains(u, KwYoutuBe) THEN "video"
        ELSE IF Contains(u, KwDownload) \/ Contains(u, KwDrive) \/ Contains(u, KwDropbox)
            THEN "download"
        ELSE IF Contains(u, KwDiscord) \/ Contains(u, KwForum) \/ Contains(u, KwReddit)
            THEN "community"
        ELSE IF Contains(u, KwPokemmo) THEN "official"
        ELSE "external"

\* The position recorded is one past the start of the match.
UrlRecordOffByOne(text, i, k) ==
    LET url       == RStrip(SubSeq(text, i, k), TrailingPunct)
        start_pos == i
        end_pos   == k
    IN  [url      |-> url,
         position |-> start_pos,
         context  |-> Strip(Slice(text, Max(0, start_pos - ContextWidth),
                                        Min(Len(text), end_pos + ContextWidth))),
         type     |-> categorize_url(url)]

\* The record extract_urls appends for the match text[i..k] (1-based, inclusive);
\* position is the 0-based match.start().
UrlRecord(text, i, k) ==
    LET url       == RStrip(SubSeq(text, i, k), TrailingPunct)
        start_pos == i - 1
        end_pos   == k
    IN  [url      |-> url,
         position |-> start_pos,
         context  |-> Strip(Slice(text, Max(0, start_pos - ContextWidth),
                                        Min(Len(text), end_pos + ContextWidth))),
         type     |-> categorize_url(url)]

\* re.finditer from 1-based index i on: non-overlapping matches, left to right.
RECURSIVE FindUrlsFrom(_, _)
FindUrlsFrom(text, i) ==
    IF i > Len(text) THEN << >>
    ELSE LET k == MatchEndAt(text, i)
         IN  IF k = 0 THEN FindUrlsFrom(text, i + 1)
             ELSE <<UrlRecord(text, i, k)>> \o FindUrlsFrom(text, k + 1)

extract_urls(text) == FindUrlsFrom(text, 1)

\* ------------------------------------------------------------------ inputs
Rids == {"rId1", "rId2"}

\* The document's image relationships: the bytes each relationship targets and
\* whether put_object succeeds for it.
RelTables ==
    { [rId1 |-> [blob |-> "png_a", put_ok |-> TRUE],
       rId2 |-> [blob |-> "png_b", put_ok |-> TRUE]],
      [rId1 |-> [blob |-> "png_a", put_ok |-> TRUE],
       rId2 |-> [blob |-> "png_a", put_ok |-> TRUE]],
      [rId1 |-> [blob |-> "png_a", put_ok |-> TRUE],
       rId2 |-> [blob |-> "png_b", put_ok |-> FALSE]] }

TextAb   == <<"a", "b">>

TextCdE  == <<" ", "c", "d", " ", "e", " ">>

TextUrlA == <<"u", " ">> \o SchemeHttp \o <<"x", ".", "y">>

TextUrlB == SchemeHttp \o <<"x", ".", "y", ",">>

\* Paragraphs a document is made of: para.text and the r:embed ids of its runs.
\* A line of twelve blanks.
TextBlankLine == [k \in 1..12 |-> " "]

ParagraphKinds ==
    { [text |-> << >>,    rids |-> << >>],
      [text |-> TextBlankLine, rids |-> << >>],
      [text |-> <<" ">>,  rids |-> <<"rId2">>],
      [text |-> TextAb,   rids |-> <<"rId1", "rId1">>],
      [text |-> TextCdE,  rids |-> <<"rId1", "rId2">>],
      [text |-> TextUrlA, rids |-> << >>],
      [text |-> TextUrlB, rids |-> <<"rId2">>] }

Documents == UNION { [1..n -> ParagraphKinds] : n \in 0..MaxParas }

\* (chunk_size, overlap) pairs the segmenter is called with: overlap < chunk_size.
Configs ==
    { c \in [chunk_size : {5, 12}, overlap : {0, 1, 2, 11}] : c.overlap < c.chunk_size }

DocName == "guide"

\* ------------------------------------------------------------------- state
VARIABLES
    paragraphs,     \* doc.paragraphs
    rels,           \* doc.part.rels, image relationships
    chunk_size,     \* parameter
    overlap,        \* parameter
    pc,             \* "start", "loop", "done"
    image_map,      \* rId -> external url, of extract_images_from_docx
    url_positions,  \* the extracted links, in position order
    chunks,         \* the list being returned
    current_chunk,
    current_images,
    chunk_index,
    text_position,
    overlap_text,   \* the prefix the pending chunk was started with
    para_i,         \* 1-based index of the loop's next paragraph
    cur_paras,      \* history: indices of the paragraphs appended to current_chunk
    log,            \* history: per appended chunk, the locals it was built from
    chunks_rerun,   \* the list a second run over the same input is building
    \* extract_urls and categorize_url called on their own
    fn_pc,          \* "idle", "ready", "extracted", "categorized"
    fn_text,        \* the argument
    fn_urls,        \* what extract_urls returned
    fn_cat,         \* what categorize_url returned
    \* workers running chunk_text_with_metadata side by side on one machine
    fs,             \* /tmp: path -> the bytes of the file there, or "absent"
    w_pc,           \* per worker: where it is in chunk_text_with_metadata
    w_name,         \* per worker: doc_name
    w_data,         \* per worker: docx_data
    w_doc,          \* per worker: the bytes Document(temp_path) parsed
    w_image_src,    \* per worker: the bytes extract_images_from_docx parsed
    w_ret,          \* per worker: the value returned
    w_faulted,      \* history, per worker: an open() or write() of its own raised
    \* process_all_files over a bucket, with the database
    bucket,         \* the objects of bronze-raw, in listing order: name and bytes
    b_pc,           \* "idle", "start", "download", "insert_doc", "chunk",
                    \* "insert_chunks", "done"
    docx_files,     \* the object names process_all_files loops over
    file_i,         \* 1-based index of the loop's object
    doc_id,         \* of process_docx_file
    doc_chunks,     \* chunks of process_docx_file
    chunk_k,        \* 1-based index of the next chunk to insert
    documents,      \* table documents, committed rows
    chunk_rows,     \* table chunks, committed rows
    pending,        \* chunk rows inserted in the open transaction
    processed_count,
    failed_count,
    returned,       \* history: what process_docx_file returned, call by call
    ops             \* history: the calls out of process_docx_file, in order

fnvars == <<fn_pc, fn_text, fn_urls, fn_cat>>

wkvars == <<fs, w_pc, w_name, w_data, w_doc, w_image_src, w_ret, w_faulted>>

dbvars == <<bucket, b_pc, docx_files, file_i, doc_id, doc_chunks, chunk_k, documents,
            chunk_rows, pending, processed_count, failed_count, returned, ops>>

\* The variables the segmenter's steps leave alone.
nonseg == <<fnvars, wkvars, dbvars>>

\* The variables the calls of extract_urls and categorize_url leave alone.
nonfn == <<wkvars, dbvars>>

segvars == <<paragraphs, rels, chunk_size, overlap, pc, image_map, url_positions, chunks,
             current_chunk, current_images, chunk_index, text_position, overlap_text,
             para_i, cur_paras, log, chunks_rerun>>

vars == <<segvars, nonseg>>

inputs == <<paragraphs, rels, chunk_size, overlap>>

\* ----------------------------------------------------- image resolution
\* hashlib.md5(image_data).hexdigest()[:12]: equal bytes, equal digest.
Md5Prefix(blob) == <<"md5", blob>>

\* f"http://{endpoint}/images/{doc_name}_{image_hash}.{ext}"
ImageUrl(doc_name, blob) == <<"images", doc_name, Md5Prefix(blob)>>

\* One failed relationship loses the whole map.
extract_images_all_or_nothing(rs, doc_name) ==
    IF \E r \in DOMAIN rs : ~rs[r].put_ok THEN << >>
    ELSE [rid \in DOMAIN rs |-> ImageUrl(doc_name, rs[rid].blob)]

\* extract_images_from_docx: relationships whose upload raised are absent.
extract_images_from_docx(rs, doc_name) ==
    [rid \in {r \in DOMAIN rs : rs[r].put_ok} |-> ImageUrl(doc_name, rs[rid].blob)]

\* [image_map.get(rid) for rid in para_images if rid in image_map]
RECURSIVE ParaImageUrls(_, _)
ParaImageUrls(rids, imap) ==
    IF rids = << >> THEN << >>
    ELSE (IF Head(rids) \in DOMAIN imap THEN <<imap[Head(rids)]>> ELSE << >>)
         \o ParaImageUrls(Tail(rids), imap)

\* ---------------------------------------------------------- segmenter
\* full_text = "\n".join([para.text for para in doc.paragraphs])
FullText(ps) == JoinNL([k \in 1..Len(ps) |-> ps[k].text])

\* {url['position']: url for url in all_urls}: one entry per position, a later
\* record replacing an earlier one of the same position, first-insertion order.
UrlPositions(all_urls) ==
    LET first(k) == \A j \in 1..(k - 1) : all_urls[j].position # all_urls[k].position
        lastOf(k) == CHOOSE j \in k..Len(all_urls) :
                        /\ all_urls[j].position = all_urls[k].position
                        /\ \A j2 \in (j + 1)..Len(all_urls) :
                               all_urls[j2].position # all_urls[k].position
        idx == SelectSeq([k \in 1..Len(all_urls) |-> k], first)
    IN  [k \in 1..Len(idx) |-> all_urls[lastOf(idx[k])]]

\* len(current_chunk) + len(para_text) <= chunk_size
Fits(cur, para_text) == Len(cur) + Len(para_text) <= chunk_size

\* The separator after the paragraph is left out.
AppendTextNoSeparator(cur, para_text) == cur \o para_text

\* current_chunk += para_text + "\n"
AppendText(cur, para_text) == cur \o para_text \o <<NL>>

\* The start is taken after the overlap prefix of the pending chunk.
ChunkStartAfterOverlap(tp, cur) == tp - (Len(cur) - Len(overlap_text))

\* chunk_start = text_position - len(current_chunk)
ChunkStart(tp, cur) == tp - Len(cur)

\* The end of the range is taken inclusive.
ChunkUrlsEndInclusive(lo, hi) ==
    LET inRange(u) == lo <= u.position /\ u.position <= hi
    IN  SelectSeq(url_positions, inRange)

\* [url for pos, url in url_positions.items() if chunk_start <= pos < chunk_end]
ChunkUrls(lo, hi) ==
    LET inRange(u) == lo <= u.position /\ u.position < hi
    IN  SelectSeq(url_positions, inRange)

\* Python s[-n:] for n >= 0: the last n characters, and all of s when n = 0
\* (-0 is 0) or n >= len(s).
LastChars(s, n) ==
    IF n = 0 \/ n >= Len(s) THEN s ELSE SubSeq(s, Len(s) - n + 1, Len(s))

\* current_chunk[-overlap:] if len(current_chunk) > overlap else current_chunk
OverlapText(cur) == IF Len(cur) > overlap THEN LastChars(cur, overlap) ELSE cur

\* The new chunk is cut to the budget.
StartChunkTextCut(ov, para_text) ==
    SubSeq(ov \o para_text, 1, Min(Len(ov \o para_text), chunk_size)) \o <<NL>>

\* current_chunk = overlap_text + para_text + "\n"
StartChunkText(ov, para_text) == ov \o para_text \o <<NL>>

\* The newline after the paragraph is not counted.
AdvancePositionNoNewline(tp, para_text) == tp + Len(para_text)

\* text_position += len(para_text) + 1
AdvancePosition(tp, para_text) == tp + Len(para_text) + 1

\* The index is left as it was.
NextChunkIndexStale(ci) == ci

\* chunk_index += 1
NextChunkIndex(ci) == ci + 1

\* The accumulator keeps what it held and takes the paragraph's images besides.
StartChunkImagesKept(imgs, para_imgs) == imgs \o para_imgs

\* current_images = para_image_urls.copy()
StartChunkImages(imgs, para_imgs) == para_imgs

\* Only a paragraph with no character at all counts as empty.
IsBlankUnstripped(text) == text = << >>

\* if not para_text, para_text = para.text.strip()
IsBlank(text) == Strip(text) = << >>

Range(s) == {s[k] : k \in DOMAIN s}

\* The accumulator is used as it is.
ListAsIs(images) == {images}

\* list(set(images)): every element once, in an order the set's hashing decides.
ListOfSet(images) ==
    LET S == Range(images)
    IN  {f \in [1..Cardinality(S) -> S] : \A a, b \in DOMAIN f : f[a] = f[b] => a = b}

\* The dict appended to chunks.
ChunkRecord(ci, cur, imgs, images_list, chunk_urls) ==
    [chunk_index |-> ci,
     content     |-> Strip(cur),
     images      |-> images_list,
     urls        |-> [k \in 1..Len(chunk_urls) |-> chunk_urls[k].url],
     url_details |-> chunk_urls,
     has_images  |-> Len(imgs) > 0,
     has_links   |-> Len(chunk_urls) > 0,
     image_count |-> Len(imgs),
     link_count  |-> Len(chunk_urls)]

\* What the history keeps of one appended chunk.
LogEntry(lo, hi) ==
    [chunk_start |-> lo, chunk_end |-> hi, text_position |-> text_position,
     buffer |-> current_chunk, prefix |-> overlap_text, paras |-> cur_paras]

\* No call of extract_urls or categorize_url on its own is under way.
FnIdle ==
    /\ fn_pc = "idle"
    /\ fn_text = << >>
    /\ fn_urls = << >>
    /\ fn_cat = "none"

\* --------------------------------------------------- staging files in /tmp
Workers == {"w1", "w2"}

\* Characters \w matches, of those the document names are written with.
WordChars == {"g", "h", "1", "_"}

\* re.sub(r'[^\w\-_\.]', '_', doc_name)
SafeName(doc_name) ==
    [k \in 1..Len(doc_name) |->
        IF doc_name[k] \in WordChars \cup {"-", "_", "."} THEN doc_name[k] ELSE "_"]

TmpDir == <<"/", "t", "m", "p", "/">>

\* f"/tmp/{safe_name}.docx"
TempPath(doc_name) == TmpDir \o SafeName(doc_name) \o <<".", "d", "o", "c", "x">>

\* f"/tmp/{safe_name}_images.docx"
ImagesTempPath(doc_name) ==
    TmpDir \o SafeName(doc_name)
        \o <<"_", "i", "m", "a", "g", "e", "s", ".", "d", "o", "c", "x">>

\* 'g 1' and 'g_1' have one safe name; 'h' has its own.
DocNames == { <<"g", " ", "1">>, <<"g", "_", "1">>, <<"h">> }

\* Bytes Document() parses.
ValidDocx == {"docx1", "docx2"}

\* Bytes of an object: a document, or something Document() raises on.
DocxData == ValidDocx \cup {"corrupt"}

Paths == {TempPath(n) : n \in DocNames} \cup {ImagesTempPath(n) : n \in DocNames}

\* What open(path, 'wb') followed by f.write(data) does: both succeed; open raises
\* and there is no file of this call; write raises after open created the file.
WriteOutcomes == {"ok", "open_raised", "write_raised"}

\* The list of chunks built from the parsed document and the image map of the
\* parsed image source ("none": an empty image map).
ChunksOf(doc, image_src) == [text_of |-> doc, images_of |-> image_src]

\* return []
NoChunks == [text_of |-> "none", images_of |-> "none"]

\* No worker exists.
WkIdle ==
    /\ fs = [p \in Paths |-> "absent"]
    /\ w_pc = [w \in Workers |-> "idle"]
    /\ w_name = [w \in Workers |-> << >>]
    /\ w_data = [w \in Workers |-> "none"]
    /\ w_doc = [w \in Workers |-> "none"]
    /\ w_image_src = [w \in Workers |-> "none"]
    /\ w_ret = [w \in Workers |-> "none"]
    /\ w_faulted = [w \in Workers |-> FALSE]

\* ------------------------------------------------------ bucket and database
\* Largest number of objects in the bucket.
MaxObjects == 2

\* Index of the last c in s, 0 when there is none.
LastIndexOf(s, c) == Max0({k \in 1..Len(s) : s[k] = c})

\* Path(object_name).name
PathName(object_name) ==
    SubSeq(object_name, LastIndexOf(object_name, "/") + 1, Len(object_name))

\* Path(object_name).stem: the name without its last suffix.
PathStem(object_name) ==
    LET name == PathName(object_name)
        dot  == LastIndexOf(name, ".")
    IN  IF dot > 1 /\ dot < Len(name) THEN SubSeq(name, 1, dot - 1) ELSE name

\* str.endswith
EndsWithSuffix(s, suffix) ==
    /\ Len(s) >= Len(suffix)
    /\ SubSeq(s, Len(s) - Len(suffix) + 1, Len(s)) = suffix

DocxSuffix == <<".", "d", "o", "c", "x">>

\* a/g.docx, b/g.docx, h.docx, h.txt
ObjectNames ==
    { <<"a", "/", "g">> \o DocxSuffix, <<"b", "/", "g">> \o DocxSuffix,
      <<"h">> \o DocxSuffix, <<"h", ".", "t", "x", "t">> }

\* Bytes of an object, by what chunk_text_with_metadata makes of them: two chunks,
\* one chunk, a document without text, bytes Document() raises on.
ObjectData == {"two_chunks", "one_chunk", "no_text", "corrupt"}

\* The chunk_index values of the chunks chunk_text_with_metadata returns:
\* 0, 1, ... for a document with text, [] for one without and after an exception.
ChunkIndices(data) ==
    CASE data = "two_chunks" -> <<0, 1>>
      [] data = "one_chunk"  -> <<0>>
      [] data = "no_text"    -> << >>
      [] data = "corrupt"    -> << >>

\* The rIds of the image relationships of a document, in the order of doc.part.rels;
\* Document() raises on the corrupt bytes before any is looked at.
ImageRelIds(data) ==
    CASE data = "two_chunks" -> <<"rId1", "rId2">>
      [] data = "one_chunk"  -> <<"rId1">>
      [] data = "no_text"    -> <<"rId1">>
      [] data = "corrupt"    -> << >>

Digits == <<"0", "1", "2", "3", "4", "5", "6", "7", "8", "9">>

\* The key is made with the number of the chunk counted from one.
ChunkIdCountedFromOne(doc_name, index) ==
    doc_name \o <<"_", "c", "h", "u", "n", "k", "_">> \o <<Digits[index + 2]>>

\* f"{doc_name}_chunk_{chunk['chunk_index']}"
ChunkId(doc_name, index) ==
    doc_name \o <<"_", "c", "h", "u", "n", "k", "_">> \o <<Digits[index + 1]>>

\* No run of process_all_files is under way.
DbIdle ==
    /\ bucket = << >>
    /\ b_pc = "idle"
    /\ docx_files = << >>
    /\ file_i = 1
    /\ doc_id = 0
    /\ doc_chunks = << >>
    /\ chunk_k = 1
    /\ documents = << >>
    /\ chunk_rows = << >>
    /\ pending = << >>
    /\ processed_count = 0
    /\ failed_count = 0
    /\ returned = << >>
    /\ ops = << >>

para_text == Strip(paragraphs[para_i].text)

para_image_urls == ParaImageUrls(paragraphs[para_i].rids, image_map)

Init ==
    /\ paragraphs \in Documents
    /\ rels \in RelTables
    /\ \E c \in Configs : chunk_size = c.chunk_size /\ overlap = c.overlap
    /\ pc = "start"
    /\ image_map = << >>
    /\ url_positions = << >>
    /\ chunks = << >>
    /\ current_chunk = << >>
    /\ current_images = << >>
    /\ chunk_index = 0
    /\ text_position = 0
    /\ overlap_text = << >>
    /\ para_i = 1
    /\ cur_paras = << >>
    /\ log = << >>
    /\ chunks_rerun = << >>
    /\ FnIdle
    /\ WkIdle
    /\ DbIdle

\* Lines 199-218: load, resolve images, extract the links, reset the locals.
Begin ==
    /\ pc = "start"
    /\ image_map' = extract_images_from_docx(rels, DocName)
    /\ url_positions' = UrlPositions(extract_urls(FullText(paragraphs)))
    /\ pc' = "loop"
    /\ UNCHANGED <<inputs, chunks, current_chunk, current_images, chunk_index,
                   text_position, overlap_text, para_i, cur_paras, log, chunks_rerun>>
    /\ UNCHANGED nonseg

\* After a paragraph whose stripped text is empty the next one is jumped over too.
SkipEmptyParagraphAndNext ==
    /\ pc = "loop"
    /\ para_i <= Len(paragraphs)
    /\ IsBlank(paragraphs[para_i].text)
    /\ para_i' = para_i + 2
    /\ UNCHANGED <<inputs, pc, image_map, url_positions, chunks, current_chunk,
                   current_images, chunk_index, text_position, overlap_text,
                   cur_paras, log, chunks_rerun>>
    /\ UNCHANGED nonseg

\* Lines 221-224: a paragraph whose stripped text is empty is skipped.
SkipEmptyParagraph ==
    /\ pc = "loop"
    /\ para_i <= Len(paragraphs)
    /\ IsBlank(paragraphs[para_i].text)
    /\ para_i' = para_i + 1
    /\ UNCHANGED <<inputs, pc, image_map, url_positions, chunks, current_chunk,
                   current_images, chunk_index, text_position, overlap_text,
                   cur_paras, log, chunks_rerun>>
    /\ UNCHANGED nonseg

\* Lines 231-233, 263: the paragraph fits the pending chunk.
AppendParagraph ==
    /\ pc = "loop"
    /\ para_i <= Len(paragraphs)
    /\ ~IsBlank(paragraphs[para_i].text)
    /\ Fits(current_chunk, para_text)
    /\ current_chunk' = AppendText(current_chunk, para_text)
    /\ current_images' = current_images \o para_image_urls
    /\ text_position' = AdvancePosition(text_position, para_text)
    /\ cur_paras' = Append(cur_paras, para_i)
    /\ para_i' = para_i + 1
    /\ UNCHANGED <<inputs, pc, image_map, url_positions, chunks, chunk_index,
                   overlap_text, log, chunks_rerun>>
    /\ UNCHANGED nonseg

\* Lines 234-263: the paragraph does not fit; the pending chunk, when there is
\* one, is appended and a new one is started from its overlap.
StartNewChunk ==
    /\ pc = "loop"
    /\ para_i <= Len(paragraphs)
    /\ ~IsBlank(paragraphs[para_i].text)
    /\ ~Fits(current_chunk, para_text)
    /\ IF current_chunk # << >>
       THEN LET lo == ChunkStart(text_position, current_chunk)
                hi == text_position
            IN  /\ \E images_list \in ListOfSet(current_images) :
                       chunks' = Append(chunks,
                           ChunkRecord(chunk_index, current_chunk, current_images,
                                       images_list, ChunkUrls(lo, hi)))
                /\ \E images_list \in ListOfSet(current_images) :
                       chunks_rerun' = Append(chunks_rerun,
                           ChunkRecord(chunk_index, current_chunk, current_images,
                                       images_list, ChunkUrls(lo, hi)))
                /\ chunk_index' = NextChunkIndex(chunk_index)
                /\ log' = Append(log, LogEntry(lo, hi))
       ELSE UNCHANGED <<chunks, chunk_index, log, chunks_rerun>>
    /\ overlap_text' = OverlapText(current_chunk)
    /\ current_chunk' = StartChunkText(OverlapText(current_chunk), para_text)
    /\ current_images' = StartChunkImages(current_images, para_image_urls)
    /\ text_position' = AdvancePosition(text_position, para_text)
    /\ cur_paras' = <<para_i>>
    /\ para_i' = para_i + 1
    /\ UNCHANGED <<inputs, pc, image_map, url_positions>>
    /\ UNCHANGED nonseg

\* Lines 265-291: after the loop the pending chunk is appended; chunks is returned.
AddLastChunk ==
    /\ pc = "loop"
    /\ para_i > Len(paragraphs)
    /\ IF current_chunk # << >>
       THEN LET lo == ChunkStart(text_position, current_chunk)
                hi == text_position
            IN  /\ \E images_list \in ListOfSet(current_images) :
                       chunks' = Append(chunks,
                           ChunkRecord(chunk_index, current_chunk, current_images,
                                       images_list, ChunkUrls(lo, hi)))
                /\ \E images_list \in ListOfSet(current_images) :
                       chunks_rerun' = Append(chunks_rerun,
                           ChunkRecord(chunk_index, current_chunk, current_images,
                                       images_list, ChunkUrls(lo, hi)))
                /\ log' = Append(log, LogEntry(lo, hi))
       ELSE UNCHANGED <<chunks, log, chunks_rerun>>
    /\ pc' = "done"
    /\ UNCHANGED <<inputs, image_map, url_positions, current_chunk, current_images,
                   chunk_index, text_position, overlap_text, para_i, cur_paras>>
    /\ UNCHANGED nonseg

Next ==
    \/ Begin
    \/ SkipEmptyParagraph
    \/ AppendParagraph
    \/ StartNewChunk
    \/ AddLastChunk

Spec == Init /\ [][Next]_vars


\* ------------------------------- extract_urls, categorize_url on their own
\* No call of chunk_text_with_metadata is under way.
SegIdle ==
    /\ paragraphs = << >>
    /\ rels = << >>
    /\ chunk_size = 0
    /\ overlap = 0
    /\ pc = "idle"
    /\ image_map = << >>
    /\ url_positions = << >>
    /\ chunks = << >>
    /\ current_chunk = << >>
    /\ current_images = << >>
    /\ chunk_index = 0
    /\ text_position = 0
    /\ overlap_text = << >>
    /\ para_i = 1
    /\ cur_paras = << >>
    /\ log = << >>
    /\ chunks_rerun = << >>

\* Pieces the argument texts are made of.
TextPieces ==
    { SchemeHttp, SchemeHttps, <<"x", ".", "y">>, <<",">>, <<" ">>, <<")">>,
      KwYoutube \o <<"/">>, <<"Y", "o", "u", "t", "u", ".", "b", "e">>,
      KwDownload, KwDiscord, KwPokemmo }

\* Two letters of the example that are not ASCII, each one character.
CharADotBelow == "a_dot_below"

CharECircumflexAcute == "e_circumflex_acute"

ExampleUrl ==
    SchemeHttps \o KwYoutube
        \o <<"/", "w", "a", "t", "c", "h", "?", "v", "=", "a", "b", "c">>

\* 'Xem tai https://youtube.com/watch?v=abc, chi tiet.' with its two marked vowels.
ExampleText ==
    <<"X", "e", "m", " ", "t", CharADotBelow, "i", " ">> \o ExampleUrl
        \o <<",", " ", "c", "h", "i", " ", "t", "i", CharECircumflexAcute, "t", ".">>

FnTexts ==
    {ExampleText} \cup
    UNION { {ConcatPieces(f) : f \in [1..n -> TextPieces]} : n \in 0..MaxPieces }

UrlInit ==
    /\ SegIdle
    /\ WkIdle
    /\ DbIdle
    /\ fn_pc = "ready"
    /\ fn_text \in FnTexts
    /\ fn_urls = << >>
    /\ fn_cat = "none"

\* extract_urls(text)
CallExtractUrls ==
    /\ fn_pc = "ready"
    /\ fn_urls' = extract_urls(fn_text)
    /\ fn_pc' = "extracted"
    /\ UNCHANGED <<fn_text, fn_cat, segvars, nonfn>>

\* categorize_url(url)
CallCategorizeUrl ==
    /\ fn_pc = "ready"
    /\ fn_cat' = categorize_url(fn_text)
    /\ fn_pc' = "categorized"
    /\ UNCHANGED <<fn_text, fn_urls, segvars, nonfn>>

UrlNext ==
    \/ CallExtractUrls
    \/ CallCategorizeUrl

SpecUrls == UrlInit /\ [][UrlNext]_vars

\* --------------------------------- the paragraph loop, run to its end
\* The state at line 219: the document is loaded, the images are resolved, the
\* links are extracted and the locals are reset.
LoopInit ==
    /\ paragraphs \in Documents
    /\ rels \in RelTables
    /\ \E c \in Configs : chunk_size = c.chunk_size /\ overlap = c.overlap
    /\ pc = "loop"
    /\ image_map = extract_images_from_docx(rels, DocName)
    /\ url_positions = UrlPositions(extract_urls(FullText(paragraphs)))
    /\ chunks = << >>
    /\ current_chunk = << >>
    /\ current_images = << >>
    /\ chunk_index = 0
    /\ text_position = 0
    /\ overlap_text = << >>
    /\ para_i = 1
    /\ cur_paras = << >>
    /\ log = << >>
    /\ chunks_rerun = << >>
    /\ FnIdle
    /\ WkIdle
    /\ DbIdle

LoopNext ==
    \/ SkipEmptyParagraph
    \/ AppendParagraph
    \/ StartNewChunk
    \/ AddLastChunk

\* The call runs on: the interpreter executes the next statement while there is one.
FairSpec == LoopInit /\ [][LoopNext]_vars /\ WF_vars(LoopNext)

\* ----------------------- chunk_text_with_metadata, two workers, one /tmp
\* The variables the workers' steps leave alone.
nonwk == <<segvars, fnvars, dbvars>>

\* Two workers are handed two different documents.
WkInit ==
    /\ SegIdle
    /\ FnIdle
    /\ DbIdle
    /\ fs = [p \in Paths |-> "absent"]
    /\ w_pc = [w \in Workers |-> "start"]
    /\ w_name \in [Workers -> DocNames]
    /\ w_data \in [Workers -> DocxData]
    /\ \A v, w \in Workers :
           v # w => <<w_name[v], w_data[v]>> # <<w_name[w], w_data[w]>>
    /\ w_doc = [w \in Workers |-> "none"]
    /\ w_image_src = [w \in Workers |-> "none"]
    /\ w_ret = [w \in Workers |-> "none"]
    /\ w_faulted = [w \in Workers |-> FALSE]

\* The file at path after open(path, 'wb'); f.write(data) with the given outcome.
Written(path, data, outcome) ==
    CASE outcome = "ok"           -> [fs EXCEPT ![path] = data]
      [] outcome = "open_raised"  -> fs
      [] outcome = "write_raised" -> [fs EXCEPT ![path] = "truncated"]

\* with open(temp_path, 'wb') as f: f.write(docx_data)
WriteTemp(w) ==
    /\ w_pc[w] = "start"
    /\ \E outcome \in WriteOutcomes :
           /\ fs' = Written(TempPath(w_name[w]), w_data[w], outcome)
           /\ w_pc' = [w_pc EXCEPT ![w] = IF outcome = "ok" THEN "wrote" ELSE "except"]
           /\ w_faulted' = [w_faulted EXCEPT ![w] = @ \/ outcome # "ok"]
    /\ UNCHANGED <<w_name, w_data, w_doc, w_image_src, w_ret, nonwk>>

\* doc = Document(temp_path): raises when the file is missing or is no document.
LoadDoc(w) ==
    /\ w_pc[w] = "wrote"
    /\ IF fs[TempPath(w_name[w])] \in ValidDocx
       THEN /\ w_doc' = [w_doc EXCEPT ![w] = fs[TempPath(w_name[w])]]
            /\ w_pc' = [w_pc EXCEPT ![w] = "loaded"]
       ELSE /\ w_pc' = [w_pc EXCEPT ![w] = "except"]
            /\ UNCHANGED w_doc
    /\ UNCHANGED <<fs, w_name, w_data, w_image_src, w_ret, w_faulted, nonwk>>

\* extract_images_from_docx: with open(temp_path, 'wb') as f: f.write(docx_data);
\* when it raises, the handler logs and the empty image_map is returned.
ImagesWriteTemp(w) ==
    /\ w_pc[w] = "loaded"
    /\ \E outcome \in WriteOutcomes :
           /\ fs' = Written(ImagesTempPath(w_name[w]), w_data[w], outcome)
           /\ w_pc' = [w_pc EXCEPT ![w] =
                           IF outcome = "ok" THEN "images_wrote" ELSE "segment"]
           /\ w_faulted' = [w_faulted EXCEPT ![w] = @ \/ outcome # "ok"]
    /\ UNCHANGED <<w_name, w_data, w_doc, w_image_src, w_ret, nonwk>>

\* extract_images_from_docx: doc = Document(temp_path) and the loop over its
\* relationships; when Document raises, the handler logs and the empty image_map
\* is returned.
ImagesLoadDoc(w) ==
    /\ w_pc[w] = "images_wrote"
    /\ IF fs[ImagesTempPath(w_name[w])] \in ValidDocx
       THEN /\ w_image_src' = [w_image_src EXCEPT ![w] = fs[ImagesTempPath(w_name[w])]]
            /\ w_pc' = [w_pc EXCEPT ![w] = "images_loaded"]
       ELSE /\ w_pc' = [w_pc EXCEPT ![w] = "segment"]
            /\ UNCHANGED w_image_src
    /\ UNCHANGED <<fs, w_name, w_data, w_doc, w_ret, w_faulted, nonwk>>

\* extract_images_from_docx: os.remove(temp_path); when the file is gone it raises,
\* the handler logs and image_map is returned as built.
ImagesRemoveTemp(w) ==
    /\ w_pc[w] = "images_loaded"
    /\ fs' = [fs EXCEPT ![ImagesTempPath(w_name[w])] = "absent"]
    /\ w_pc' = [w_pc EXCEPT ![w] = "segment"]
    /\ UNCHANGED <<w_name, w_data, w_doc, w_image_src, w_ret, w_faulted, nonwk>>

\* The paragraph loop, then os.remove(temp_path) and return chunks; when the file
\* is gone os.remove raises.
SegmentAndRemoveTemp(w) ==
    /\ w_pc[w] = "segment"
    /\ IF fs[TempPath(w_name[w])] # "absent"
       THEN /\ fs' = [fs EXCEPT ![TempPath(w_name[w])] = "absent"]
            /\ w_ret' = [w_ret EXCEPT ![w] = ChunksOf(w_doc[w], w_image_src[w])]
            /\ w_pc' = [w_pc EXCEPT ![w] = "done"]
       ELSE /\ w_pc' = [w_pc EXCEPT ![w] = "except"]
            /\ UNCHANGED <<fs, w_ret>>
    /\ UNCHANGED <<w_name, w_data, w_doc, w_image_src, w_faulted, nonwk>>

\* except Exception: if os.path.exists(temp_path): os.remove(temp_path); return []
HandleException(w) ==
    /\ w_pc[w] = "except"
    /\ fs' = [fs EXCEPT ![TempPath(w_name[w])] = "absent"]
    /\ w_ret' = [w_ret EXCEPT ![w] = NoChunks]
    /\ w_pc' = [w_pc EXCEPT ![w] = "done"]
    /\ UNCHANGED <<w_name, w_data, w_doc, w_image_src, w_faulted, nonwk>>

WkNext ==
    \/ \E w \in Workers : WriteTemp(w)
    \/ \E w \in Workers : LoadDoc(w)
    \/ \E w \in Workers : ImagesWriteTemp(w)
    \/ \E w \in Workers : ImagesLoadDoc(w)
    \/ \E w \in Workers : ImagesRemoveTemp(w)
    \/ \E w \in Workers : SegmentAndRemoveTemp(w)
    \/ \E w \in Workers : HandleException(w)

SpecWorkers == WkInit /\ [][WkNext]_vars

\* ------------------------------------ process_all_files, process_docx_file
\* The variables the steps of process_all_files leave alone.
nondb == <<segvars, fnvars, wkvars>>

\* Sequences without repetition of up to n elements of S.
DistinctSeqs(S, n) ==
    UNION { {q \in [1..m -> S] : \A i, j \in 1..m : i # j => q[i] # q[j]} : m \in 0..n }

\* A bucket of objects with different names, and empty tables.
DbInit ==
    /\ SegIdle
    /\ FnIdle
    /\ WkIdle
    /\ \E names \in DistinctSeqs(ObjectNames, MaxObjects) :
           bucket \in {b \in [1..Len(names) -> [object_name : ObjectNames, data : ObjectData]] :
                          \A k \in 1..Len(names) : b[k].object_name = names[k]}
    /\ b_pc = "start"
    /\ docx_files = << >>
    /\ file_i = 1
    /\ doc_id = 0
    /\ doc_chunks = << >>
    /\ chunk_k = 1
    /\ documents = << >>
    /\ chunk_rows = << >>
    /\ pending = << >>
    /\ processed_count = 0
    /\ failed_count = 0
    /\ returned = << >>
    /\ ops = << >>

\* [obj.object_name for obj in objects if obj.object_name.endswith('.docx')]
RECURSIVE SelectDocx(_)
SelectDocx(objs) ==
    IF objs = << >> THEN << >>
    ELSE IF EndsWithSuffix(Head(objs).object_name, DocxSuffix)
         THEN <<Head(objs).object_name>> \o SelectDocx(Tail(objs))
         ELSE SelectDocx(Tail(objs))

\* response.read() of get_object("bronze-raw", object_name)
DataOf(object_name) ==
    bucket[CHOOSE k \in 1..Len(bucket) : bucket[k].object_name = object_name].data

\* object_name of the loop of process_all_files
CurrentObjectName == docx_files[file_i]

\* The history with one more operation of the call on the current object.
Logged(op, key, ok) ==
    Append(ops, [op |-> op, object |-> CurrentObjectName, key |-> key, ok |-> ok])

\* The loop of process_all_files ends at the first call that returns False.
ReturnToLoopStopOnFailure(value) ==
    /\ returned' = Append(returned, value)
    /\ processed_count' = IF value THEN processed_count + 1 ELSE processed_count
    /\ failed_count' = IF value THEN failed_count ELSE failed_count + 1
    /\ IF file_i < Len(docx_files) /\ value
       THEN /\ file_i' = file_i + 1
            /\ b_pc' = "download"
       ELSE /\ b_pc' = "done"
            /\ UNCHANGED file_i

\* process_docx_file returns value; process_all_files counts it and moves on.
ReturnToLoop(value) ==
    /\ returned' = Append(returned, value)
    /\ processed_count' = IF value THEN processed_count + 1 ELSE processed_count
    /\ failed_count' = IF value THEN failed_count ELSE failed_count + 1
    /\ IF file_i < Len(docx_files)
       THEN /\ file_i' = file_i + 1
            /\ b_pc' = "download"
       ELSE /\ b_pc' = "done"
            /\ UNCHANGED file_i

\* process_all_files: list the bucket, keep the .docx objects.
ListObjects ==
    /\ b_pc = "start"
    /\ docx_files' = SelectDocx(bucket)
    /\ b_pc' = IF SelectDocx(bucket) = << >> THEN "done" ELSE "download"
    /\ UNCHANGED <<bucket, file_i, doc_id, doc_chunks, chunk_k, documents, chunk_rows,
                   pending, processed_count, failed_count, returned, ops, nondb>>

\* process_docx_file: get_object and read; an exception goes to the outer handler.
Download ==
    /\ b_pc = "download"
    /\ \E ok \in BOOLEAN :
           /\ ops' = Logged("call", << >>, ok)
           /\ IF ok THEN /\ b_pc' = "insert_doc"
                         /\ UNCHANGED <<file_i, processed_count, failed_count, returned>>
                    ELSE ReturnToLoop(FALSE)
    /\ UNCHANGED <<bucket, docx_files, doc_id, doc_chunks, chunk_k, documents,
                   chunk_rows, pending, nondb>>

\* A failed INSERT INTO documents is tried a second time.
InsertDocumentRetrying ==
    /\ b_pc = "insert_doc"
    /\ \E ok \in BOOLEAN :
           /\ ops' = Logged("insert_document", << >>, ok)
           /\ IF ok THEN /\ doc_id' = Len(documents) + 1
                         /\ documents' = Append(documents,
                                [id                |-> Len(documents) + 1,
                                 file_name         |-> PathName(CurrentObjectName),
                                 file_path         |-> CurrentObjectName,
                                 processing_status |-> "processing"])
                         /\ b_pc' = "chunk"
                         /\ UNCHANGED <<file_i, processed_count, failed_count, returned>>
                    ELSE IF ops # << >> /\ ops[Len(ops)].op = "insert_document"
                         THEN /\ ReturnToLoop(FALSE)
                              /\ UNCHANGED <<doc_id, documents>>
                         ELSE UNCHANGED <<doc_id, documents, b_pc, file_i,
                                          processed_count, failed_count, returned>>
    /\ UNCHANGED <<bucket, docx_files, doc_chunks, chunk_k, chunk_rows, pending, nondb>>

\* process_docx_file: INSERT INTO documents ... 'processing' RETURNING id; commit.
\* When it raises: rollback, return False.
InsertDocument ==
    /\ b_pc = "insert_doc"
    /\ \E ok \in BOOLEAN :
           /\ ops' = Logged("insert_document", << >>, ok)
           /\ IF ok THEN /\ doc_id' = Len(documents) + 1
                         /\ documents' = Append(documents,
                                [id                |-> Len(documents) + 1,
                                 file_name         |-> PathName(CurrentObjectName),
                                 file_path         |-> CurrentObjectName,
                                 processing_status |-> "processing"])
                         /\ b_pc' = "chunk"
                         /\ UNCHANGED <<file_i, processed_count, failed_count, returned>>
                    ELSE /\ ReturnToLoop(FALSE)
                         /\ UNCHANGED <<doc_id, documents>>
    /\ UNCHANGED <<bucket, docx_files, doc_chunks, chunk_k, chunk_rows, pending, nondb>>

\* The put_object calls of extract_images_from_docx, one per image relationship in
\* the order of doc.part.rels, each succeeding or raising.
PutAttempts(rids, oks) ==
    [k \in 1..Len(rids) |->
        [op |-> "put_image", object |-> CurrentObjectName, key |-> <<rids[k]>>,
         ok |-> oks[k]]]

\* process_docx_file: chunks = chunk_text_with_metadata(docx_data, doc_name);
\* if not chunks: warning, return False.
ChunkDocument ==
    /\ b_pc = "chunk"
    /\ doc_chunks' = ChunkIndices(DataOf(CurrentObjectName))
    /\ chunk_k' = 1
    /\ \E oks \in [1..Len(ImageRelIds(DataOf(CurrentObjectName))) -> BOOLEAN] :
           ops' = ops \o PutAttempts(ImageRelIds(DataOf(CurrentObjectName)), oks)
    /\ IF ChunkIndices(DataOf(CurrentObjectName)) = << >>
       THEN ReturnToLoop(FALSE)
       ELSE /\ b_pc' = "insert_chunks"
            /\ UNCHANGED <<file_i, processed_count, failed_count, returned>>
    /\ UNCHANGED <<bucket, docx_files, doc_id, documents, chunk_rows, pending, nondb>>

\* Each INSERT INTO chunks is committed on its own.
InsertChunkAutocommit ==
    /\ b_pc = "insert_chunks"
    /\ chunk_k <= Len(doc_chunks)
    /\ \E ok \in BOOLEAN :
           /\ ops' = Logged("insert_chunk",
                            ChunkId(PathStem(CurrentObjectName), doc_chunks[chunk_k]), ok)
           /\ IF ok THEN /\ chunk_rows' = Append(chunk_rows,
                                [doc_id   |-> doc_id,
                                 chunk_id |-> ChunkId(PathStem(CurrentObjectName),
                                                      doc_chunks[chunk_k])])
                         /\ chunk_k' = chunk_k + 1
                         /\ UNCHANGED <<b_pc, file_i, processed_count, failed_count,
                                        returned>>
                    ELSE /\ ReturnToLoop(FALSE)
                         /\ UNCHANGED <<chunk_k, chunk_rows>>
    /\ UNCHANGED <<bucket, docx_files, doc_id, doc_chunks, documents, pending, nondb>>

\* process_docx_file: INSERT INTO chunks for the next chunk. When it raises:
\* rollback, return False.
InsertChunk ==
    /\ b_pc = "insert_chunks"
    /\ chunk_k <= Len(doc_chunks)
    /\ \E ok \in BOOLEAN :
           /\ ops' = Logged("insert_chunk",
                            ChunkId(PathStem(CurrentObjectName), doc_chunks[chunk_k]), ok)
           /\ IF ok THEN /\ pending' = Append(pending,
                                [doc_id   |-> doc_id,
                                 chunk_id |-> ChunkId(PathStem(CurrentObjectName),
                                                      doc_chunks[chunk_k])])
                         /\ chunk_k' = chunk_k + 1
                         /\ UNCHANGED <<b_pc, file_i, processed_count, failed_count,
                                        returned>>
                    ELSE /\ pending' = << >>
                         /\ ReturnToLoop(FALSE)
                         /\ UNCHANGED chunk_k
    /\ UNCHANGED <<bucket, docx_files, doc_id, doc_chunks, documents, chunk_rows, nondb>>

\* process_docx_file: UPDATE documents SET processing_status = 'completed'; commit;
\* return True. When it raises: rollback, return False.
CompleteDocument ==
    /\ b_pc = "insert_chunks"
    /\ chunk_k > Len(doc_chunks)
    /\ pending' = << >>
    /\ \E ok \in BOOLEAN :
           /\ ops' = Logged("commit", << >>, ok)
           /\ IF ok THEN /\ documents' = [documents EXCEPT
                                             ![doc_id].processing_status = "completed"]
                         /\ chunk_rows' = chunk_rows \o pending
                         /\ ReturnToLoop(TRUE)
                    ELSE /\ ReturnToLoop(FALSE)
                         /\ UNCHANGED <<documents, chunk_rows>>
    /\ UNCHANGED <<bucket, docx_files, doc_id, doc_chunks, chunk_k, nondb>>

DbNext ==
    \/ ListObjects
    \/ Download
    \/ InsertDocument
    \/ ChunkDocument
    \/ InsertChunk
    \/ CompleteDocument

SpecBatch == DbInit /\ [][DbNext]_vars

\* ------------------------------------------------------------ properties
IsOversized(k) == Len(Strip(paragraphs[k].text)) > chunk_size

IsEmptyPara(k) == Strip(paragraphs[k].text) = << >>

\* The primary text of a chunk: its paragraphs' stripped texts, newline-joined.
PrimaryText(e) == JoinNL([k \in 1..Len(e.paras) |-> Strip(paragraphs[e.paras[k]].text)])

EndsWith(s, sub) == Len(sub) <= Len(s) /\ OccursAt(s, sub, Len(s) - Len(sub) + 1)

StartsWith(s, sub) == OccursAt(s, sub, 1)

NoDuplicates(s) == \A a, b \in DOMAIN s : s[a] = s[b] => a = b

RECURSIVE ConcatAll(_)
ConcatAll(ss) == IF ss = << >> THEN << >> ELSE Head(ss) \o ConcatAll(Tail(ss))

\* Indices below n of the paragraphs whose stripped text is not empty, in order.
NonEmptyBelow(n) ==
    LET keep(k) == ~IsEmptyPara(k)
    IN  SelectSeq([k \in 1..(n - 1) |-> k], keep)

\* C1: in the list being returned chunks[i].chunk_index = i for every i (0-based):
\* indices start at 0 and have no gaps.
C1_IndicesContiguous ==
    \A i \in 1..Len(chunks) : chunks[i].chunk_index = i - 1

\* A finished run over an empty, a fitting and an oversized paragraph, two chunks or more.
C1_Witness ==
    /\ pc = "done"
    /\ Len(chunks) >= 2
    /\ \E k \in DOMAIN paragraphs : IsEmptyPara(k)
    /\ \E k \in DOMAIN paragraphs : IsOversized(k)
    /\ \E k \in DOMAIN paragraphs : ~IsEmptyPara(k) /\ ~IsOversized(k)

\* C2: every link attached to a chunk lies in that chunk: its url is a substring
\* of the chunk's content.
C2_LinksLieInChunk ==
    \A i \in 1..Len(chunks) :
        \A k \in 1..Len(chunks[i].url_details) :
            Contains(chunks[i].content, chunks[i].url_details[k].url)

\* The positions duplicated from chunk n into the prefix of chunk n + 1.
InDuplicatedSpan(u, n) ==
    /\ log[n].chunk_end - Len(log[n + 1].prefix) <= u.position
    /\ u.position < log[n].chunk_end

Attached(u, i) == u \in Range(chunks[i].url_details)

\* C3 as stated: a link in the span duplicated from chunk n into chunk n + 1 is
\* listed in chunk n and not in chunk n + 1, and every link is attached to at most
\* one chunk. Stated for overlap >= 1, where the carried prefix is a proper tail.
C3_NoReattribution ==
    overlap >= 1 =>
    /\ \A n \in 1..(Len(chunks) - 1) : \A u \in Range(url_positions) :
           InDuplicatedSpan(u, n) => Attached(u, n) /\ ~Attached(u, n + 1)
    /\ \A u \in Range(url_positions) :
           Cardinality({i \in 1..Len(chunks) : Attached(u, i)}) <= 1

\* C3 amended: a link whose position is in the span duplicated from chunk n into
\* the prefix of chunk n + 1 is listed in chunk n and in chunk n + 1 as well.
C3_OverlapReattributes ==
    \A n \in 1..(Len(chunks) - 1) : \A u \in Range(url_positions) :
        InDuplicatedSpan(u, n) => Attached(u, n) /\ Attached(u, n + 1)

\* A link in a duplicated span, with a carried prefix shorter than the chunk it is
\* taken from.
C3_Witness ==
    \E n \in 1..(Len(chunks) - 1) : \E u \in Range(url_positions) :
        /\ InDuplicatedSpan(u, n)
        /\ Len(log[n + 1].prefix) < Len(log[n].buffer)
        /\ overlap > 0

\* C4: a chunk's range is [text_position - len(current_chunk), text_position) and
\* its links are exactly the extracted links positioned in that range, each once.
C4_LinksExactlyInRange ==
    \A i \in 1..Len(chunks) :
        LET e  == log[i]
            lo == e.text_position - Len(e.buffer)
            hi == e.text_position
        IN  /\ e.chunk_start = lo
            /\ e.chunk_end = hi
            /\ Range(chunks[i].url_details) =
                   {u \in Range(url_positions) : lo <= u.position /\ u.position < hi}
            /\ NoDuplicates(chunks[i].url_details)

\* A finished run with a chunk appended in the loop and the last one appended after
\* it, both holding a link, and a link that starts exactly at a chunk's end.
C4_Witness ==
    /\ pc = "done"
    /\ Len(chunks) >= 2
    /\ chunks[1].url_details # << >>
    /\ chunks[Len(chunks)].url_details # << >>
    /\ \E i \in 1..Len(chunks) : \E u \in Range(url_positions) :
           u.position = log[i].chunk_end

\* C5: the prefix carried into the next chunk is the last `overlap` characters of
\* the appended buffer when the buffer is longer than `overlap`, the whole buffer
\* otherwise, and never longer than `overlap`.
C5_OverlapCarry ==
    \A n \in 1..(Len(log) - 1) :
        LET buf == log[n].buffer
            carried == log[n + 1].prefix
        IN  /\ carried = IF Len(buf) > overlap
                         THEN SubSeq(buf, Len(buf) - overlap + 1, Len(buf))
                         ELSE buf
            /\ Len(carried) <= overlap

\* The chunk is one paragraph that is itself longer than chunk_size.
SingleParagraphOverflow(e) == Len(e.paras) = 1 /\ IsOversized(e.paras[1])

\* C6: every chunk but a single-paragraph overflow has len(content) <= chunk_size.
\* Stated for overlap >= 1, where the carried prefix has at most `overlap` characters.
C6_SizeBound ==
    overlap >= 1 =>
    \A i \in 1..Len(chunks) :
        ~SingleParagraphOverflow(log[i]) => Len(chunks[i].content) <= chunk_size

\* C7: chunk k + 1's content starts with the last `overlap` characters of chunk k's
\* content when that content has at least `overlap` characters.
C7_OverlapIsContentSuffix ==
    \A k \in 1..(Len(chunks) - 1) :
        LET c == chunks[k].content
        IN  Len(c) >= overlap =>
                StartsWith(chunks[k + 1].content,
                           SubSeq(c, Len(c) - overlap + 1, Len(c)))

\* The paragraphs appended so far, chunk by chunk, then those of the pending chunk.
PrimaryParas ==
    ConcatAll([i \in 1..Len(log) |-> log[i].paras])
        \o (IF pc = "loop" THEN cur_paras ELSE << >>)

\* C8: every paragraph with non-empty stripped text is the primary text of exactly
\* one chunk, whole, after that chunk's prefix; the primary texts in index order
\* are the non-empty paragraphs in document order.
C8_NoParagraphLost ==
    /\ \A i \in 1..Len(chunks) :
           /\ EndsWith(chunks[i].content, PrimaryText(log[i]))
           /\ log[i].buffer = log[i].prefix \o PrimaryText(log[i]) \o <<NL>>
    /\ pc # "start" => PrimaryParas = NonEmptyBelow(para_i)

\* A finished run with three non-empty paragraphs, two of them in one chunk, and
\* a chunk that starts with a carried prefix.
C8_Witness ==
    /\ pc = "done"
    /\ Len(NonEmptyBelow(para_i)) >= 3
    /\ \E i \in 1..Len(log) : Len(log[i].paras) >= 2
    /\ \E i \in 1..Len(log) : log[i].prefix # << >>

\* C9: a document of one paragraph longer than chunk_size gives exactly one chunk,
\* index 0, whose content is the paragraph (its stripped text, which is what the
\* segmenter measures); an oversized paragraph anywhere is whole in a chunk that
\* has no other primary paragraph.
C9_OverflowPassthrough ==
    /\ (pc = "done" /\ Len(paragraphs) = 1 /\ IsOversized(1)) =>
           /\ Len(chunks) = 1
           /\ chunks[1].chunk_index = 0
           /\ chunks[1].content = Strip(paragraphs[1].text)
    /\ \A i \in 1..Len(chunks) : \A k \in Range(log[i].paras) :
           IsOversized(k) =>
               /\ log[i].paras = <<k>>
               /\ EndsWith(chunks[i].content, Strip(paragraphs[k].text))
    /\ pc = "done" =>
           \A k \in DOMAIN paragraphs :
               IsOversized(k) => \E i \in 1..Len(chunks) : k \in Range(log[i].paras)

\* A finished run whose document has an oversized paragraph after another
\* paragraph and before a third.
C9_Witness ==
    /\ pc = "done"
    /\ Len(paragraphs) = 3
    /\ ~IsEmptyPara(1) /\ IsOversized(2) /\ ~IsEmptyPara(3)

\* C10: no chunk's images list holds the same external url twice.
C10_ImagesDistinct ==
    \A i \in 1..Len(chunks) : NoDuplicates(chunks[i].images)

\* A chunk of two paragraphs whose accumulator held an url more than once, two
\* relationship ids resolving to the same url.
C10_Witness ==
    /\ rels["rId1"].blob = rels["rId2"].blob
    /\ \E i \in 1..Len(chunks) :
           /\ Len(log[i].paras) >= 2
           /\ chunks[i].image_count > Len(chunks[i].images)
           /\ \E k \in Range(log[i].paras) :
                  "rId1" \in Range(paragraphs[k].rids) /\ "rId2" \in Range(paragraphs[k].rids)

\* C11: in every chunk record image_count is the number of entries of images,
\* has_images holds exactly when images is not empty, link_count is the number of
\* entries of urls and of url_details, has_links holds exactly when link_count > 0.
C11_DerivedFieldsAgree ==
    \A i \in 1..Len(chunks) :
        LET c == chunks[i]
        IN  /\ c.image_count = Len(c.images)
            /\ c.has_images = (c.images # << >>)
            /\ c.link_count = Len(c.urls)
            /\ c.link_count = Len(c.url_details)
            /\ c.has_links = (c.link_count > 0)

\* The resolved image urls of paragraph k.
ResolvedImages(k) == Range(ParaImageUrls(paragraphs[k].rids, image_map))

\* C12: a chunk's images are exactly the resolved images of the paragraphs appended
\* to it after its overlap prefix; the images of the chunk the prefix was taken
\* from are not carried over.
C12_ImagesOfPrimaryParagraphs ==
    \A i \in 1..Len(chunks) :
        Range(chunks[i].images) = UNION {ResolvedImages(k) : k \in Range(log[i].paras)}

\* A chunk started with a carried prefix that lists none of the images of the chunk
\* before it, which has some.
C12_Witness ==
    \E i \in 2..Len(chunks) :
        /\ log[i].prefix # << >>
        /\ chunks[i - 1].images # << >>
        /\ Range(chunks[i - 1].images) \cap Range(chunks[i].images) = {}

\* C13: a second run over the same document, name, chunk_size and overlap builds
\* the same chunk list, element for element, the order of images included.
C13_RerunIdentical ==
    chunks_rerun = chunks

\* C14: a document whose paragraphs are all empty once stripped (or that has none)
\* gives zero chunks, and the step over an empty paragraph changes none of
\* current_chunk, current_images, chunk_index and text_position.
C14_EmptyParagraphsAreNoOps ==
    [][ /\ (pc' = "done" /\ \A k \in DOMAIN paragraphs : IsEmptyPara(k))
            => chunks' = << >>
        /\ (pc = "loop" /\ para_i <= Len(paragraphs) /\ IsEmptyPara(para_i))
            => UNCHANGED <<current_chunk, current_images, chunk_index, text_position>>
      ]_vars

\* A finished run over two or more paragraphs, all empty once stripped, one of
\* them holding whitespace.
C14_Witness ==
    /\ pc = "done"
    /\ Len(paragraphs) >= 2
    /\ \A k \in DOMAIN paragraphs : IsEmptyPara(k)
    /\ \E k \in DOMAIN paragraphs : paragraphs[k].text # << >>
    /\ chunks = << >>

\* C15: a relationship whose upload failed is absent from the image map, every
\* other one is present with its url, the chunks are still returned, and no chunk
\* lists an url that is not in the map.
C15_ImageFailureIsolated ==
    /\ pc # "start" =>
           /\ DOMAIN image_map = {r \in DOMAIN rels : rels[r].put_ok}
           /\ \A r \in DOMAIN image_map : image_map[r] = ImageUrl(DocName, rels[r].blob)
    /\ pc = "done" =>
           (chunks # << >>) = (\E k \in DOMAIN paragraphs : ~IsEmptyPara(k))
    /\ \A i \in 1..Len(chunks) : Range(chunks[i].images) \subseteq Range(image_map)

\* A finished run in which an upload failed and a chunk's paragraph refers to the
\* failed relationship and to one that succeeded, whose url the chunk lists.
C15_Witness ==
    /\ pc = "done"
    /\ \E i \in 1..Len(chunks) : \E k \in Range(log[i].paras) :
           \E r1, r2 \in Range(paragraphs[k].rids) :
               /\ ~rels[r1].put_ok
               /\ rels[r2].put_ok
               /\ image_map[r2] \in Range(chunks[i].images)

\* The rules of categorize_url in their order: the category and the markers.
CategoryRules ==
    << [cat |-> "video",     kws |-> {KwYoutube, KwYoutuBe}],
       [cat |-> "download",  kws |-> {KwDownload, KwDrive, KwDropbox}],
       [cat |-> "community", kws |-> {KwDiscord, KwForum, KwReddit}],
       [cat |-> "official",  kws |-> {KwPokemmo}] >>

\* The rules a url matches, whatever the case of its letters.
MatchingRules(url) ==
    {r \in DOMAIN CategoryRules :
        \E kw \in CategoryRules[r].kws : Contains(LowerText(url), kw)}

\* C16: categorize_url returns the category of the first rule matched in the order
\* video, download, community, official, and external when none matches.
C16_FirstMatchingRule ==
    fn_pc = "categorized" =>
        LET ms == MatchingRules(fn_text)
        IN  /\ fn_cat \in {"video", "download", "community", "official", "external"}
            /\ ms = {} => fn_cat = "external"
            /\ ms # {} =>
                   fn_cat = CategoryRules[CHOOSE r \in ms : \A r2 \in ms : r <= r2].cat

\* A url with a capital letter that matches the video rule and the official rule,
\* categorized.
C16_Witness ==
    /\ fn_pc = "categorized"
    /\ {1, 4} \subseteq MatchingRules(fn_text)
    /\ fn_text # LowerText(fn_text)
    /\ fn_cat = "video"

\* C17: no url extract_urls returns ends with sentence punctuation, and
\* text[position : position + len(url)] is the url; the example text gives the one
\* url https://youtube.com/watch?v=abc, of category video.
C17_UrlsAreCleanSlices ==
    fn_pc = "extracted" =>
        /\ \A k \in 1..Len(fn_urls) :
               LET u == fn_urls[k]
               IN  /\ u.url # << >>
                   /\ u.url[Len(u.url)] \notin TrailingPunct
                   /\ u.position + Len(u.url) <= Len(fn_text)
                   /\ Slice(fn_text, u.position, u.position + Len(u.url)) = u.url
        /\ fn_text = ExampleText =>
               /\ Len(fn_urls) = 1
               /\ fn_urls[1].url = ExampleUrl
               /\ fn_urls[1].type = "video"

\* The example text, its url extracted, the comma after it left out.
C17_Witness ==
    /\ fn_pc = "extracted"
    /\ fn_text = ExampleText
    /\ Len(fn_urls) = 1
    /\ fn_text[fn_urls[1].position + Len(fn_urls[1].url) + 1] = ","

\* What chunk_text_with_metadata returns for a worker's document when nothing else
\* touches /tmp and no open() or write() raises.
ReturnedAlone(w) ==
    IF w_data[w] \in ValidDocx THEN ChunksOf(w_data[w], w_data[w]) ELSE NoChunks

\* C18: whatever the interleaving of two workers on two different documents, also
\* ones whose names have one safe name, each returns the chunks it returns alone.
C18_WorkersDoNotInterfere ==
    \A w \in Workers :
        (w_pc[w] = "done" /\ \A v \in Workers : ~w_faulted[v]) =>
            w_ret[w] = ReturnedAlone(w)

\* C19: once chunk_text_with_metadata has returned, normally or after an exception,
\* neither its staging file nor the one of extract_images_from_docx exists; stated
\* for a worker no other worker shares a safe name with.
C19_StagingFilesReleased ==
    \A w \in Workers :
        (w_pc[w] = "done"
            /\ \A v \in Workers \ {w} : SafeName(w_name[v]) # SafeName(w_name[w])) =>
            /\ fs[TempPath(w_name[w])] = "absent"
            /\ fs[ImagesTempPath(w_name[w])] = "absent"

\* The objects whose call of process_docx_file has returned.
ReturnedObjects == {docx_files[k] : k \in 1..Len(returned)}

\* C20: once process_docx_file has returned for a document whose record was
\* inserted, the record's processing_status is not 'processing'.
C20_NoDocumentLeftProcessing ==
    \A r \in 1..Len(documents) :
        documents[r].file_path \in ReturnedObjects =>
            documents[r].processing_status # "processing"

\* The calls of process_docx_file that have returned and had inserted the record
\* of their document.
CallsPastInsert ==
    {k \in 1..Len(returned) :
        \E n \in 1..Len(ops) :
            /\ ops[n].op = "insert_document"
            /\ ops[n].object = docx_files[k]
            /\ ops[n].ok}

\* The returned calls on a document that parsed and gave zero chunks.
ZeroChunkCalls == {k \in CallsPastInsert : DataOf(docx_files[k]) = "no_text"}

\* The returned calls on bytes whose parsing raised.
ParseErrorCalls == {k \in CallsPastInsert : DataOf(docx_files[k]) = "corrupt"}

\* C21: a document that parses and gives zero chunks is not counted in failed_count,
\* and process_docx_file's outcome for it differs from the outcome for a document
\* whose processing raised.
C21_ZeroChunksIsNoFailure ==
    /\ failed_count <= Cardinality((1..Len(returned)) \ ZeroChunkCalls)
    /\ \A k \in ZeroChunkCalls : \A j \in ParseErrorCalls : returned[k] # returned[j]

IsCall(e) == e.op = "call"

\* The objects process_docx_file was called on, in the order of the calls.
CalledObjects ==
    LET calls == SelectSeq(ops, IsCall)
    IN  [k \in 1..Len(calls) |-> calls[k].object]

\* C22: process_docx_file is called on the listed .docx objects in listing order,
\* once each, whatever the earlier calls returned; every call is counted once, and
\* at the end every listed object was attempted and processed_count + failed_count
\* is the number of listed .docx objects.
C22_FailureAbortsOnlyCurrentDocument ==
    /\ Len(CalledObjects) <= Len(docx_files)
    /\ CalledObjects = SubSeq(docx_files, 1, Len(CalledObjects))
    /\ NoDuplicates(CalledObjects)
    /\ processed_count + failed_count = Len(returned)
    /\ b_pc = "done" =>
           /\ CalledObjects = SelectDocx(bucket)
           /\ processed_count + failed_count = Len(SelectDocx(bucket))

\* A run over two documents: the first failed, the second was processed.
C22_Witness ==
    /\ b_pc = "done"
    /\ returned = <<FALSE, TRUE>>
    /\ processed_count = 1
    /\ failed_count = 1

\* The positions in the history of the INSERT INTO chunks of the call on an object.
ChunkInsertsOf(object) ==
    {n \in 1..Len(ops) : ops[n].op = "insert_chunk" /\ ops[n].object = object}

\* '{document_name}_chunk_{chunk_index}', written out for the indices 0 and 1.
ExpectedKey(object, index) ==
    PathStem(object) \o <<"_", "c", "h", "u", "n", "k", "_">>
        \o (IF index = 0 THEN <<"0">> ELSE <<"1">>)

\* C23: every insert of a chunk record comes after the successful, committed insert
\* of its document's record and never after a failed one; the j-th chunk insert of a
\* document carries the key '{document_name}_chunk_{j-1}', the index of the j-th
\* chunk, so the inserts go in increasing index order.
C23_DocumentBeforeChunksKeysInOrder ==
    \A n \in 1..Len(ops) :
        ops[n].op = "insert_chunk" =>
            LET object == ops[n].object
                j      == Cardinality({m \in ChunkInsertsOf(object) : m <= n})
            IN  /\ \E m \in 1..(n - 1) :
                       /\ ops[m].op = "insert_document"
                       /\ ops[m].object = object
                       /\ ops[m].ok
                /\ ~ \E m \in 1..Len(ops) :
                       /\ ops[m].op = "insert_document"
                       /\ ops[m].object = object
                       /\ ~ops[m].ok
                /\ \E r \in 1..Len(documents) : documents[r].file_path = object
                /\ j <= Len(ChunkIndices(DataOf(object)))
                /\ ChunkIndices(DataOf(object))[j] = j - 1
                /\ ops[n].key = ExpectedKey(object, j - 1)
                /\ \A c \in 1..Len(chunk_rows) :
                       LET r == chunk_rows[c].doc_id
                           i == Cardinality({b \in 1..c : chunk_rows[b].doc_id = r})
                       IN  chunk_rows[c].chunk_id
                               = ExpectedKey(documents[r].file_path, i - 1)

\* Two chunk records of one document were inserted, keys ending in 0 and then 1,
\* and committed.
C23_Witness ==
    /\ b_pc = "done"
    /\ \E r \in 1..Len(documents) :
           /\ documents[r].processing_status = "completed"
           /\ Cardinality({c \in 1..Len(chunk_rows) :
                              chunk_rows[c].doc_id = documents[r].id}) = 2

\* The operations the claim names: the put of an image, the insert of the
\* document's record, the insert of a chunk record.
SingleShotOps == {"put_image", "insert_document", "insert_chunk"}

\* C24: in the call of process_docx_file on an object each put of an image
\* relationship, the insert of the document's record and each insert of a chunk
\* record is attempted at most once, failed or not; a failed insert is the last
\* operation of its call.
C24_NoRetry ==
    \A m, n \in 1..Len(ops) :
        (m < n /\ ops[m].object = ops[n].object) =>
            /\ (ops[m].op \in SingleShotOps /\ ops[m].op = ops[n].op) =>
                   ops[m].key # ops[n].key
            /\ ops[m].op \in {"insert_document", "insert_chunk"} => ops[m].ok

\* A finished run in which a put, an insert of a document's record and an insert
\* of a chunk record have each failed.
C24_Witness ==
    /\ b_pc = "done"
    /\ \A op \in SingleShotOps :
           \E n \in 1..Len(ops) : ops[n].op = op /\ ~ops[n].ok

\* The committed chunk records of the document with record r.
PersistedChunksOf(r) ==
    {c \in 1..Len(chunk_rows) : chunk_rows[c].doc_id = documents[r].id}

\* The number of chunks chunk_text_with_metadata makes of the document with record r.
ChunkCountOf(r) == Len(ChunkIndices(DataOf(documents[r].file_path)))

\* C28: of every document either all N chunk records are committed and its
\* processing_status is 'completed', or none is committed and it is not
\* 'completed'; no other number of chunk records is ever committed.
C28_ChunksAllOrNothing ==
    \A r \in 1..Len(documents) :
        \/ /\ Cardinality(PersistedChunksOf(r)) = ChunkCountOf(r)
           /\ ChunkCountOf(r) >= 1
           /\ documents[r].processing_status = "completed"
        \/ /\ PersistedChunksOf(r) = {}
           /\ documents[r].processing_status # "completed"

\* A finished run: the second chunk insert of a two-chunk document failed after
\* the first had succeeded, and none of its chunk records is committed.
C28_Witness ==
    /\ b_pc = "done"
    /\ \E r \in 1..Len(documents) :
           /\ ChunkCountOf(r) = 2
           /\ PersistedChunksOf(r) = {}
           /\ \E m, n \in 1..Len(ops) :
                  /\ m < n
                  /\ ops[m].op = "insert_chunk" /\ ops[m].ok
                  /\ ops[n].op = "insert_chunk" /\ ~ops[n].ok
                  /\ ops[m].object = documents[r].file_path
                  /\ ops[n].object = documents[r].file_path

\* C29: no two committed chunk records have the same chunk_id, also when objects
\* of different folders have file names with the same stem.
C29_ChunkIdsUnique ==
    \A a, b \in 1..Len(chunk_rows) :
        chunk_rows[a].chunk_id = chunk_rows[b].chunk_id => a = b

\* The canonical text of the paragraphs ks: each stripped text and a newline.
CanonicalText(ks) ==
    ConcatAll([j \in 1..Len(ks) |-> Strip(paragraphs[ks[j]].text) \o <<NL>>])

\* The paragraphs consumed when the i-th chunk was appended.
ConsumedAt(i) == ConcatAll([j \in 1..i |-> log[j].paras])

\* buffer is the slice [position - len(buffer), position) of canon.
IsCanonicalSlice(buffer, position, canon) ==
    /\ position - Len(buffer) >= 0
    /\ position <= Len(canon)
    /\ buffer = Slice(canon, position - Len(buffer), position)

\* C25: at every loop boundary and at every finalize current_chunk is the slice
\* [text_position - len(current_chunk), text_position) of the canonical text of the
\* non-empty paragraphs consumed so far; chunk_start is never negative, chunk 0
\* starts at 0, the chunk ends increase strictly and the last one is the number of
\* characters consumed.
C25_BufferIsCanonicalSlice ==
    /\ pc = "loop" =>
           IsCanonicalSlice(current_chunk, text_position,
                            CanonicalText(NonEmptyBelow(para_i)))
    /\ \A i \in 1..Len(log) :
           /\ IsCanonicalSlice(log[i].buffer, log[i].text_position,
                               CanonicalText(ConsumedAt(i)))
           /\ log[i].chunk_start = log[i].text_position - Len(log[i].buffer)
           /\ log[i].chunk_start >= 0
           /\ log[i].chunk_end = log[i].text_position
           /\ i > 1 => log[i - 1].chunk_end < log[i].chunk_end
    /\ Len(log) >= 1 => log[1].chunk_start = 0
    /\ (pc = "done" /\ Len(log) >= 1) =>
           log[Len(log)].chunk_end
               = Len(CanonicalText(NonEmptyBelow(Len(paragraphs) + 1)))

\* A finished run of two chunks, the second started with a carried prefix shorter
\* than the first chunk's buffer, with an empty paragraph in the document.
C25_Witness ==
    /\ pc = "done"
    /\ Len(log) = 2
    /\ log[2].prefix # << >>
    /\ Len(log[2].prefix) < Len(log[1].buffer)
    /\ log[2].chunk_start > 0
    /\ \E k \in 1..Len(paragraphs) : IsEmptyPara(k)

\* C26: when the document yields a chunk, every link extract_urls finds in the full
\* text is in the url_details of some chunk, and the chunks carry no other link.
C26_NoLinkLost ==
    (pc = "done" /\ Len(chunks) >= 1) =>
        Range(extract_urls(FullText(paragraphs)))
            = UNION {Range(chunks[i].url_details) : i \in 1..Len(chunks)}

\* C27: every image that was resolved and is referenced by a paragraph, with text
\* or without, is in the images of some chunk.
C27_NoImageLost ==
    pc = "done" =>
        \A k \in 1..Len(paragraphs) :
            ResolvedImages(k) \subseteq
                UNION {Range(chunks[i].images) : i \in 1..Len(chunks)}

\* The number of paragraphs whose stripped text is not empty.
NonEmptyCount == Len(NonEmptyBelow(Len(paragraphs) + 1))

\* C30: the call ends; each step of the loop moves to the next paragraph, so each
\* is visited once; at the end every chunk has non-empty content and at least one
\* primary paragraph, and there are no chunks when no paragraph has text and
\* otherwise between one and as many as there are paragraphs with text.
C30_TerminatesWithBoundedChunks ==
    /\ <>(pc = "done")
    /\ [][(pc = "loop" /\ para_i <= Len(paragraphs)) => para_i' = para_i + 1]_vars
    /\ [](pc = "done" =>
             /\ para_i = Len(paragraphs) + 1
             /\ \A i \in 1..Len(chunks) :
                    /\ chunks[i].content # << >>
                    /\ log[i].paras # << >>
             /\ NonEmptyCount = 0 => Len(chunks) = 0
             /\ NonEmptyCount >= 1 => (1 <= Len(chunks) /\ Len(chunks) <= NonEmptyCount))

\* A finished run over three paragraphs with text that gave two chunks.
C30_Witness ==
    /\ pc = "done"
    /\ NonEmptyCount = 3
    /\ Len(chunks) = 2

====
